---- MODULE Spec2Model ----
(***************************************************************************)
(* A model of teras: the Biaffine scoring layer and the Embed constructor  *)
(* of teras/framework/pytorch/model.py, and concurrent_apply of            *)
(* teras/utils/concurrent.py.                                              *)
(*                                                                         *)
(* Tensors are records [shape, ok, data]: data is the row-major content    *)
(* of a contiguous tensor of that shape, and ok = FALSE is the shape error *)
(* the tensor engine raises.  Every reshaping step of Biaffine.forward is  *)
(* computed on the flat data, as the engine does it.                       *)
(*                                                                         *)
(* Parameter values are kept in units of stdv / RandRes, where stdv is the *)
(* 1/sqrt(n) that reset_parameters computed: a stored integer m stands for *)
(* the real number m / (RandRes * sqrt(stdvDim)).  forward is linear in    *)
(* the parameters, so its outputs are integers in the same unit.           *)
(***************************************************************************)
EXTENDS Integers, Sequences, FiniteSets, TLC

\* ------------------------------------------------------------------ bounds
MaxFeat == 2
MaxOut == 2
MaxBatch == 2
MaxLen == 2
RandRes == 4
MaxItems == 3
MaxVal == 2
MaxProcs == 2
MaxArgs == 2
MaxSize == 2

\* ------------------------------------------------------------------- state
\* a Biaffine layer, and the forward call in progress on it
VARIABLES in1_features, in2_features, out_features, use_bias,
          weight, bias, stdvDim, bpc, call

bvars == <<in1_features, in2_features, out_features, use_bias,
           weight, bias, stdvDim, bpc, call>>

\* a call of concurrent_apply: the pool's queues and workers, the list being
\* built and the progress bar
VARIABLES inputs, process_num, ppc, taskq, running, resultq, ret_list,
          applied, pbarTotal, pbarCount, pbarClosed

pvars == <<inputs, process_num, ppc, taskq, running, resultq, ret_list,
           applied, pbarTotal, pbarCount, pbarClosed>>

\* a call of Embed.__init__: its arguments, loop position, locals and results
VARIABLES eargs, ei, embeds, esize, locals, epc

evars == <<eargs, ei, embeds, esize, locals, epc>>

vars == <<bvars, pvars, evars>>

\* ------------------------------------------------------------ tensor engine
RECURSIVE Prod(_)
Prod(s) == IF s = <<>> THEN 1 ELSE Head(s) * Prod(Tail(s))

Numel(shape) == Prod(shape)

ShapeError == [shape |-> <<>>, ok |-> FALSE, data |-> <<>>]

Tensor(shape, data) == [shape |-> shape, ok |-> TRUE, data |-> data]

\* t.data at a 0-based flat offset
At(t, k) == t.data[k + 1]

RECURSIVE SumTo(_, _)
\* the sum of f[0] .. f[n-1]
SumTo(f, n) == IF n = 0 THEN 0 ELSE f[n - 1] + SumTo(f, n - 1)

\* tensor.view(shape) on a contiguous tensor: the same data under another shape
View(t, shape) ==
    IF ~t.ok THEN ShapeError
    ELSE IF Numel(shape) # Numel(t.shape) THEN ShapeError
    ELSE Tensor(shape, t.data)

\* torch.ones(b, l, 1)
Ones(b, l) == Tensor(<<b, l, 1>>, [k \in 1..(b * l) |-> 1])

\* torch.cat((t, u), dim=2) of two rank-3 tensors
Cat2(t, u) ==
    IF ~t.ok \/ ~u.ok THEN ShapeError
    ELSE IF t.shape[1] # u.shape[1] \/ t.shape[2] # u.shape[2] THEN ShapeError
    ELSE LET B == t.shape[1]
             L == t.shape[2]
             Dt == t.shape[3]
             Du == u.shape[3]
             D == Dt + Du
         IN Tensor(<<B, L, D>>,
                [k \in 1..(B * L * D) |->
                    LET row == (k - 1) \div D
                        col == (k - 1) % D
                    IN IF col < Dt THEN At(t, row * Dt + col)
                       ELSE At(u, row * Du + (col - Dt))])

\* torch.transpose(t, 1, 2).contiguous() of a rank-3 tensor
Transpose12(t) ==
    IF ~t.ok THEN ShapeError
    ELSE LET N0 == t.shape[1]
             N1 == t.shape[2]
             N2 == t.shape[3]
         IN Tensor(<<N0, N2, N1>>,
                [k \in 1..(N0 * N1 * N2) |->
                    LET a == (k - 1) \div (N2 * N1)
                        c == ((k - 1) \div N1) % N2
                        b == (k - 1) % N1
                    IN At(t, (a * N1 + b) * N2 + c)])

\* torch.transpose(t, 2, 3) of a rank-4 tensor, read out in row-major order
Transpose23(t) ==
    IF ~t.ok THEN ShapeError
    ELSE LET N0 == t.shape[1]
             N1 == t.shape[2]
             N2 == t.shape[3]
             N3 == t.shape[4]
         IN Tensor(<<N0, N1, N3, N2>>,
                [k \in 1..(N0 * N1 * N2 * N3) |->
                    LET ab == (k - 1) \div (N3 * N2)
                        d == ((k - 1) \div N2) % N3
                        c == (k - 1) % N2
                    IN At(t, (ab * N2 + c) * N3 + d)])

\* torch.mm(a, b) of two matrices
Mm(a, b) ==
    IF ~a.ok \/ ~b.ok THEN ShapeError
    ELSE IF a.shape[2] # b.shape[1] THEN ShapeError
    ELSE LET N == a.shape[1]
             K == a.shape[2]
             M == b.shape[2]
         IN Tensor(<<N, M>>,
                [k \in 1..(N * M) |->
                    LET r == (k - 1) \div M
                        c == (k - 1) % M
                    IN SumTo([p \in 0..(K - 1) |->
                                 At(a, r * K + p) * At(b, p * M + c)], K)])

\* torch.bmm(a, b) of two rank-3 tensors
Bmm(a, b) ==
    IF ~a.ok \/ ~b.ok THEN ShapeError
    ELSE IF a.shape[1] # b.shape[1] \/ a.shape[3] # b.shape[2] THEN ShapeError
    ELSE LET B == a.shape[1]
             N == a.shape[2]
             K == a.shape[3]
             M == b.shape[3]
         IN Tensor(<<B, N, M>>,
                [k \in 1..(B * N * M) |->
                    LET bb == (k - 1) \div (N * M)
                        r == ((k - 1) \div M) % N
                        c == (k - 1) % M
                    IN SumTo([p \in 0..(K - 1) |->
                                 At(a, (bb * N + r) * K + p)
                                     * At(b, (bb * K + p) * M + c)], K)])

\* bias.expand_as(t): a vector broadcast along the last axis of t
ExpandAs(v, t) ==
    IF ~v.ok \/ ~t.ok THEN ShapeError
    ELSE IF v.shape[1] # t.shape[Len(t.shape)] THEN ShapeError
    ELSE Tensor(t.shape,
            [k \in 1..Numel(t.shape) |-> At(v, (k - 1) % v.shape[1])])

\* t += u: the values of t's storage after the in-place addition
IAdd(t, u) ==
    IF ~t.ok \/ ~u.ok THEN ShapeError
    ELSE IF t.shape # u.shape THEN ShapeError
    ELSE Tensor(t.shape, [k \in 1..Numel(t.shape) |-> t.data[k] + u.data[k]])

\* ------------------------------------------------------------------ Biaffine
\* register_parameter('bias', None)
None == [shape |-> <<>>, ok |-> FALSE, data |-> <<>>]

\* int(flag) of a bool
ToInt(flag) == IF flag THEN 1 ELSE 0

\* the seeds of the random generator that uniform_ draws from
Seeds == 0..1

\* the k-th draw (k = 0, 1, ...) of a generator seeded with seed: u = r / RandRes
\* in [0, 1), mapped by uniform_(-stdv, stdv) to -stdv + u * 2 * stdv, which is
\* (2r - RandRes) in units of stdv / RandRes
Draw(seed, k) == 2 * ((seed * (k + 1) + k + (k \div 3)) % RandRes) - RandRes

\* tensor.uniform_(-stdv, stdv), the generator having made `skip` draws before
Uniform(shape, seed, skip) ==
    Tensor(shape, [k \in 1..Numel(shape) |-> Draw(seed, skip + k - 1)])

WeightShapeNoBias1(d1, d2, o, ub) == <<d1, d2 + ToInt(ub[2]), o>>

\* shape = (in1_features + int(bias[0]), in2_features + int(bias[1]), out_features)
WeightShape(d1, d2, o, ub) == <<d1 + ToInt(ub[1]), d2 + ToInt(ub[2]), o>>

StdvDimSecond(w) == w.shape[2]

\* stdv = 1. / math.sqrt(self.weight.size(0)): the n of 1/sqrt(n)
StdvDim(w) == w.shape[1]

AugmentInputFront(x, batch_size, len) == Cat2(Ones(batch_size, len), x)

\* input = torch.cat((input, Variable(ones)), dim=2), ones of (batch_size, len, 1)
AugmentInput(x, batch_size, len) == Cat2(x, Ones(batch_size, len))

WReshapedNoTranspose(w, dim1, out_size, dim2) ==
    View(w, <<dim1, out_size * dim2>>)

\* torch.transpose(self.weight, 1, 2).contiguous().view(dim1, out_size * dim2)
WReshaped(w, dim1, out_size, dim2) ==
    View(Transpose12(w), <<dim1, out_size * dim2>>)

ScoreLayoutNoTranspose(t) == t

\* torch.transpose(<bmm(...).view(batch_size, len1, out_size, len2)>, 2, 3)
ScoreLayout(t) == Transpose23(t)

AddBiasSkipped(biaffine, b) == biaffine

\* biaffine += self.bias.expand_as(biaffine)
AddBias(biaffine, b) == IAdd(biaffine, ExpandAs(b, biaffine))

BiasAfterForwardAccum(b, ub, biaffine) ==
    IF ub[3] /\ b.ok /\ biaffine.ok
    THEN Tensor(b.shape, [k \in 1..Numel(b.shape) |-> b.data[k] + biaffine.data[k]])
    ELSE b

\* self.bias after forward: expand_as gives a view that += only reads
BiasAfterForward(b, ub, biaffine) == b

\* Biaffine.forward: the returned tensor, and the parameters and the caller's
\* two tensors as the call leaves them
Forward(w, b, ub, out_size, x1, x2) ==
    LET batch_size == x1.shape[1]
        len1 == x1.shape[2]
        dim1 == x1.shape[3] + ToInt(ub[1])
        input1 == IF ub[1] THEN AugmentInput(x1, batch_size, len1) ELSE x1
        len2 == x2.shape[2]
        dim2 == x2.shape[3] + ToInt(ub[2])
        input2 == IF ub[2] THEN AugmentInput(x2, batch_size, len2) ELSE x2
        input1_reshaped == View(input1, <<batch_size * len1, dim1>>)
        W_reshaped == WReshaped(w, dim1, out_size, dim2)
        affine == View(Mm(input1_reshaped, W_reshaped),
                       <<batch_size, len1 * out_size, dim2>>)
        biaffine == ScoreLayout(View(Bmm(affine, Transpose12(input2)),
                                     <<batch_size, len1, out_size, len2>>))
    IN [weight |-> w,
        bias |-> BiasAfterForward(b, ub, biaffine),
        input1 |-> x1,
        input2 |-> x2,
        out |-> IF ub[3] THEN AddBias(biaffine, b) ELSE biaffine]

\* the tensor of the given shape that a caller passes, in value pattern pat
InputTensor(shape, pat) ==
    Tensor(shape, [k \in 1..Numel(shape) |-> ((k * k + pat * k + pat) % 5) - 2])

NoCall == [input1 |-> None, input2 |-> None, out |-> None,
           input1After |-> None, input2After |-> None]

\* Biaffine.__init__, reset_parameters included
BiaffineInit ==
    /\ in1_features \in 1..MaxFeat
    /\ in2_features \in 1..MaxFeat
    /\ out_features \in 1..MaxOut
    /\ use_bias \in BOOLEAN \X BOOLEAN \X BOOLEAN
    /\ \E seed \in Seeds :
          LET shape == WeightShape(in1_features, in2_features, out_features, use_bias)
          IN /\ weight = Uniform(shape, seed, 0)
             /\ stdvDim = StdvDim(Tensor(shape, <<>>))
             /\ bias = IF use_bias[3]
                       THEN Uniform(<<out_features>>, seed, Numel(shape))
                       ELSE None
    /\ bpc = "idle"
    /\ call = NoCall

\* Biaffine.reset_parameters
ResetParameters ==
    /\ bpc = "idle"
    /\ \E seed \in Seeds :
          /\ stdvDim' = StdvDim(weight)
          /\ weight' = Uniform(weight.shape, seed, 0)
          /\ bias' = IF bias.ok
                     THEN Uniform(bias.shape, seed, Numel(weight.shape))
                     ELSE bias
    /\ UNCHANGED <<in1_features, in2_features, out_features, use_bias, bpc, call>>
    /\ UNCHANGED <<pvars, evars>>

\* one call of Biaffine.forward on the tensors x1, x2
DoForward(x1, x2) ==
    LET r == Forward(weight, bias, use_bias, out_features, x1, x2)
    IN /\ bpc = "idle"
       /\ bpc' = "called"
       /\ call' = [input1 |-> x1, input2 |-> x2, out |-> r.out,
                   input1After |-> r.input1, input2After |-> r.input2]
       /\ weight' = r.weight
       /\ bias' = r.bias
       /\ UNCHANGED <<in1_features, in2_features, out_features, use_bias, stdvDim>>
       /\ UNCHANGED <<pvars, evars>>

\* forward on inputs of the shapes the layer was built for
ForwardValid ==
    \E B \in 1..MaxBatch, L1 \in 1..MaxLen, L2 \in 1..MaxLen :
        DoForward(InputTensor(<<B, L1, in1_features>>, 0),
                  InputTensor(<<B, L2, in2_features>>, 1))

\* forward on rank-3 inputs of any batch size and feature width (sequences of
\* length 1: the lengths play no part in the engine's shape checks)
ForwardAny ==
    \E B1 \in 1..MaxBatch, B2 \in 1..MaxBatch,
       W1 \in 1..(MaxFeat + 1), W2 \in 1..(MaxFeat + 1) :
        DoForward(InputTensor(<<B1, 1, W1>>, 1), InputTensor(<<B2, 1, W2>>, 0))

\* the caller takes the result and the layer is ready for its next call
Return ==
    /\ bpc = "called"
    /\ bpc' = "idle"
    /\ call' = NoCall
    /\ UNCHANGED <<in1_features, in2_features, out_features, use_bias,
                   weight, bias, stdvDim>>
    /\ UNCHANGED <<pvars, evars>>

\* the layer when no Biaffine is under study
BiaffineIdle ==
    /\ in1_features = 1
    /\ in2_features = 1
    /\ out_features = 1
    /\ use_bias = <<FALSE, FALSE, FALSE>>
    /\ weight = None
    /\ bias = None
    /\ stdvDim = 1
    /\ bpc = "none"
    /\ call = NoCall

\* ---------------------------------------------------------- concurrent_apply
\* func, the function the caller passes: total, and not injective
Func(x) == (x * x) % 3

CollectedOverwrite(list, ret) == <<ret>>

\* ret_list += [ret]
Collected(list, ret) == list \o <<ret>>

\* a call concurrent_apply(func, iterator, process_num) about to run
PoolInit ==
    /\ inputs \in UNION {[1..n -> 0..MaxVal] : n \in 0..MaxItems}
    /\ process_num \in 1..MaxProcs
    /\ ppc = "start"
    /\ taskq = <<>>
    /\ running = [w \in 1..process_num |-> 0]
    /\ resultq = <<>>
    /\ ret_list = <<>>
    /\ applied = [k \in 1..Len(inputs) |-> 0]
    /\ pbarTotal = -1
    /\ pbarCount = 0
    /\ pbarClosed = FALSE

\* Pool(processes=process_num) .. pool.imap_unordered(func, iterator): the pool
\* is made, the bar initialised with the total, and every element queued as a task
PoolStart ==
    /\ ppc = "start"
    /\ ppc' = "loop"
    /\ pbarTotal' = Len(inputs)
    /\ ret_list' = <<>>
    /\ taskq' = [k \in 1..Len(inputs) |-> k]
    /\ UNCHANGED <<inputs, process_num, running, resultq, applied,
                   pbarCount, pbarClosed>>
    /\ UNCHANGED <<bvars, evars>>

\* an idle worker process takes the next task
WorkerTake(w) ==
    /\ ppc # "start"
    /\ running[w] = 0
    /\ taskq # <<>>
    /\ running' = [running EXCEPT ![w] = Head(taskq)]
    /\ taskq' = Tail(taskq)
    /\ UNCHANGED <<inputs, process_num, ppc, resultq, ret_list, applied,
                   pbarTotal, pbarCount, pbarClosed>>
    /\ UNCHANGED <<bvars, evars>>

\* a worker process applies func to its element and sends the result back
WorkerFinish(w) ==
    /\ running[w] # 0
    /\ resultq' = Append(resultq, Func(inputs[running[w]]))
    /\ applied' = [applied EXCEPT ![running[w]] = @ + 1]
    /\ running' = [running EXCEPT ![w] = 0]
    /\ UNCHANGED <<inputs, process_num, ppc, taskq, ret_list,
                   pbarTotal, pbarCount, pbarClosed>>
    /\ UNCHANGED <<bvars, evars>>

\* one turn of the for loop: the next result that arrived is collected
Collect ==
    /\ ppc = "loop"
    /\ resultq # <<>>
    /\ ret_list' = Collected(ret_list, Head(resultq))
    /\ resultq' = Tail(resultq)
    /\ pbarCount' = pbarCount + 1
    /\ UNCHANGED <<inputs, process_num, ppc, taskq, running, applied,
                   pbarTotal, pbarClosed>>
    /\ UNCHANGED <<bvars, evars>>

\* the iterator is exhausted (every task's result was handed over): the loop ends,
\* the bar is closed and ret_list returned
PoolReturn ==
    /\ ppc = "loop"
    /\ resultq = <<>>
    /\ taskq = <<>>
    /\ \A w \in 1..process_num : running[w] = 0
    /\ pbarClosed' = TRUE
    /\ ppc' = "done"
    /\ UNCHANGED <<inputs, process_num, taskq, running, resultq, ret_list,
                   applied, pbarTotal, pbarCount>>
    /\ UNCHANGED <<bvars, evars>>

\* no concurrent_apply under study
PoolIdle ==
    /\ inputs = <<>>
    /\ process_num = 1
    /\ ppc = "none"
    /\ taskq = <<>>
    /\ running = <<0>>
    /\ resultq = <<>>
    /\ ret_list = <<>>
    /\ applied = <<>>
    /\ pbarTotal = -1
    /\ pbarCount = 0
    /\ pbarClosed = FALSE

\* --------------------------------------------------------------------- Embed
\* Python's None for a size, and for an array or tuple (its shape)
NoSize == 0

NoShape == <<>>

Sizes == 1..MaxSize

Shapes == Sizes \X Sizes

\* the positional arguments: a dict (its num_embeddings/in_size, its
\* embedding_dim/out_size and the shape of its weight/initialW, each given or
\* not), an np.ndarray (its shape), or a 2-tuple (vocab_size, embed_size)
DictArgs ==
    [shape : Shapes \cup {NoShape}, kind : {"dict"},
     vocab : Sizes \cup {NoSize}, embed : Sizes \cup {NoSize}]

ArrayArgs == [shape : Shapes, kind : {"ndarray"}, vocab : {NoSize}, embed : {NoSize}]

TupleArgs == [shape : {NoShape}, kind : {"tuple"}, vocab : Sizes, embed : Sizes]

EmbedArgs == DictArgs \cup ArrayArgs \cup TupleArgs

\* the function's local variables; embeddings is unbound until first assigned
NoLocals ==
    [shape |-> NoShape, vocab_size |-> NoSize, embed_size |-> NoSize,
     embeddings |-> "unbound"]

\* Embed.__init__ called with args, before its loop
EmbedInit ==
    /\ eargs \in UNION {[1..n -> EmbedArgs] : n \in 1..MaxArgs}
    /\ ei = 1
    /\ embeds = <<>>
    /\ esize = 0
    /\ locals = NoLocals
    /\ epc = "loop"

\* elif isinstance(embeddings, tuple) and len(embeddings) == 2: what the test
\* reads is the local variable embeddings, not the argument
TupleBranch(arg, loc) == loc.embeddings = "tuple"

\* the locals vocab_size, embed_size and embeddings (with the shape of the array
\* or the items of the tuple it holds)
Locals(vocab_size, embed_size, embeddings, shape) ==
    [shape |-> shape, vocab_size |-> vocab_size, embed_size |-> embed_size,
     embeddings |-> embeddings]

\* the argument was read, leaving the locals loc
Read(loc) == [loc |-> loc, err |-> ""]

\* raise err
Raise(loc, err) == [loc |-> loc, err |-> err]

\* lines 69-92: the locals after the argument is read, or the error raised
ReadArg(arg, loc) ==
    IF arg.kind = "dict"
    THEN LET embeddings == IF arg.shape = NoShape THEN "none" ELSE "ndarray"
         IN IF arg.vocab = NoSize \/ arg.embed = NoSize
            THEN IF arg.shape = NoShape
                 THEN Raise(loc, "ValueError")
                 ELSE Read(Locals(arg.shape[1], arg.shape[2], embeddings, arg.shape))
            ELSE Read(Locals(arg.vocab, arg.embed, embeddings, arg.shape))
    ELSE IF arg.kind = "ndarray"
    THEN Read(Locals(arg.shape[1], arg.shape[2], "ndarray", arg.shape))
    ELSE IF loc.embeddings = "unbound"
    THEN Raise(loc, "UnboundLocalError")
    ELSE IF TupleBranch(arg, loc)
    THEN Read(Locals(loc.shape[1], loc.shape[2], "none", NoShape))
    ELSE Raise(loc, "ValueError")

\* one turn of the loop over args (lines 68-102)
EmbedStep ==
    /\ epc = "loop"
    /\ ei <= Len(eargs)
    /\ LET r == ReadArg(eargs[ei], locals)
           copyFails == /\ r.loc.embeddings = "ndarray"
                        /\ r.loc.shape # <<r.loc.vocab_size, r.loc.embed_size>>
       IN IF r.err # ""
          THEN /\ epc' = r.err
               /\ UNCHANGED <<ei, embeds, esize, locals>>
          ELSE IF copyFails
          THEN /\ epc' = "RuntimeError"
               /\ locals' = r.loc
               /\ UNCHANGED <<ei, embeds, esize>>
          ELSE /\ embeds' = Append(embeds, <<r.loc.vocab_size, r.loc.embed_size>>)
               /\ esize' = esize + r.loc.embed_size
               /\ locals' = r.loc
               /\ ei' = ei + 1
               /\ epc' = "loop"
    /\ UNCHANGED eargs
    /\ UNCHANGED <<bvars, pvars>>

\* after the loop: super().__init__(embeds) and the dropout setup (dropout=0.0)
EmbedFinish ==
    /\ epc = "loop"
    /\ ei > Len(eargs)
    /\ epc' = "done"
    /\ UNCHANGED <<eargs, ei, embeds, esize, locals>>
    /\ UNCHANGED <<bvars, pvars>>

\* no Embed under study
EmbedIdle ==
    /\ eargs = <<>>
    /\ ei = 1
    /\ embeds = <<>>
    /\ esize = 0
    /\ locals = NoLocals
    /\ epc = "none"

\* ------------------------------------------------------------ specifications
Init == BiaffineInit /\ PoolIdle /\ EmbedIdle

Next == ResetParameters \/ ForwardValid \/ ForwardAny \/ Return

Spec == Init /\ [][Next]_vars

InitPool == BiaffineIdle /\ PoolInit /\ EmbedIdle

NextPool ==
    \/ PoolStart
    \/ \E w \in 1..process_num : WorkerTake(w)
    \/ \E w \in 1..process_num : WorkerFinish(w)
    \/ Collect
    \/ PoolReturn

SpecPool == InitPool /\ [][NextPool]_vars

InitEmbed == BiaffineIdle /\ PoolIdle /\ EmbedInit

NextEmbed == EmbedStep \/ EmbedFinish

SpecEmbed == InitEmbed /\ [][NextEmbed]_vars

\* --------------------------------------------------------- Biaffine: claims
\* x[b, i, p], w[p, q, o] and out[b, i, j, o] of contiguous tensors, 0-based
X3(t, b, i, p) == At(t, (b * t.shape[2] + i) * t.shape[3] + p)

W3(w, p, q, o) == At(w, (p * w.shape[2] + q) * w.shape[3] + o)

Out4(t, b, i, j, o) == At(t, ((b * t.shape[2] + i) * t.shape[3] + j) * t.shape[4] + o)

\* sum over p < D1, q < D2 of x1[b,i,p] * w[p,q,o] * x2[b,j,q]
Bilinear(x1, w, x2, b, i, j, o) ==
    SumTo([p \in 0..(x1.shape[3] - 1) |->
              SumTo([q \in 0..(x2.shape[3] - 1) |->
                        X3(x1, b, i, p) * W3(w, p, q, o) * X3(x2, b, j, q)],
                    x2.shape[3])],
          x1.shape[3])

\* feature p of x[b, i, :] with a constant 1 appended after its last feature
FeatureOrOne(x, b, i, p) == IF p < x.shape[3] THEN X3(x, b, i, p) ELSE 1

\* the bilinear form over all rows and columns of w, the inputs extended by a
\* trailing 1 where w has one more row or column than the input has features
BilinearAugmented(x1, w, x2, b, i, j, o) ==
    SumTo([p \in 0..(w.shape[1] - 1) |->
              SumTo([q \in 0..(w.shape[2] - 1) |->
                        FeatureOrOne(x1, b, i, p) * W3(w, p, q, o)
                            * FeatureOrOne(x2, b, j, q)],
                    w.shape[2])],
          w.shape[1])

\* a forward call has returned or failed, on inputs of the configured widths
\* and one batch size
CallValid ==
    /\ bpc = "called"
    /\ call.input1.shape[3] = in1_features
    /\ call.input2.shape[3] = in2_features
    /\ call.input1.shape[1] = call.input2.shape[1]

ExpectedShape ==
    <<call.input1.shape[1], call.input1.shape[2], call.input2.shape[2], out_features>>

Positions ==
    (0..(call.input1.shape[1] - 1)) \X (0..(call.input1.shape[2] - 1))
        \X (0..(call.input2.shape[2] - 1)) \X (0..(out_features - 1))

\* C1: without any bias flag, every entry [b,i,j,o] of forward's result is the sum
\* over p, q of input1[b,i,p] * weight[p,q,o] * input2[b,j,q], for every batch
\* size, length, width and number of output channels.
C1_BilinearForm ==
    (CallValid /\ use_bias = <<FALSE, FALSE, FALSE>>) =>
        /\ call.out.ok
        /\ call.out.shape = ExpectedShape
        /\ \A pos \in Positions :
              Out4(call.out, pos[1], pos[2], pos[3], pos[4])
                  = Bilinear(call.input1, weight, call.input2,
                             pos[1], pos[2], pos[3], pos[4])

C1_Witness ==
    /\ CallValid
    /\ use_bias = <<FALSE, FALSE, FALSE>>
    /\ call.out.ok
    /\ ExpectedShape = <<2, 2, 2, 2>>
    /\ in1_features = 2
    /\ in2_features = 2
    /\ \E pos \in Positions : Out4(call.out, pos[1], pos[2], pos[3], pos[4]) # 0

\* C2: on valid inputs, and whatever the bias flags, forward returns a tensor of
\* shape (B, L1, L2, out_features).
C2_OutputShape ==
    CallValid =>
        /\ call.out.ok
        /\ call.out.shape = ExpectedShape
        /\ Len(call.out.data) = Numel(ExpectedShape)

C2_Witness ==
    /\ CallValid
    /\ call.out.ok
    /\ call.out.shape = <<2, 1, 2, 2>>
    /\ use_bias = <<TRUE, FALSE, TRUE>>

\* C3: a forward call whose input1 width differs from in1_features, or whose
\* input2 width differs from in2_features, or whose two batch sizes differ, fails
\* with a shape error and returns no tensor.
C3_MisshapedCallFails ==
    (/\ bpc = "called"
     /\ \/ call.input1.shape[3] # in1_features
        \/ call.input2.shape[3] # in2_features
        \/ call.input1.shape[1] # call.input2.shape[1])
        => ~call.out.ok

\* C4: with bias[0] (bias[1]) set, forward's result is the bilinear form of the same
\* weight on input1 (input2) with a constant 1 appended as the last feature: the 1
\* meets weight row in1_features (column in2_features) and no other.
C4_OnesAppendedLast ==
    (CallValid /\ (use_bias[1] \/ use_bias[2]) /\ ~use_bias[3]) =>
        /\ call.out.ok
        /\ \A pos \in Positions :
              Out4(call.out, pos[1], pos[2], pos[3], pos[4])
                  = BilinearAugmented(call.input1, weight, call.input2,
                                      pos[1], pos[2], pos[3], pos[4])

C4_Witness ==
    /\ CallValid
    /\ use_bias = <<TRUE, FALSE, FALSE>>
    /\ call.out.ok
    /\ in1_features = 2
    /\ weight.shape[1] = 3
    /\ \E pos \in Positions :
          Out4(call.out, pos[1], pos[2], pos[3], pos[4])
              # Bilinear(call.input1, weight, call.input2,
                         pos[1], pos[2], pos[3], pos[4])

\* C5: every entry [b,i,j,o] of forward's result is the bilinear score plus bias[o]
\* when bias[2] is set, the same bias[o] at every b, i, j, and the bilinear score
\* alone when it is not; without bias[2] there is no bias vector, and the call
\* completes.
C5_BiasPerChannel ==
    CallValid =>
        /\ call.out.ok
        /\ use_bias[3] => bias.ok
        /\ ~use_bias[3] => bias = None
        /\ \A pos \in Positions :
              Out4(call.out, pos[1], pos[2], pos[3], pos[4])
                      - BilinearAugmented(call.input1, weight, call.input2,
                                          pos[1], pos[2], pos[3], pos[4])
                  = IF use_bias[3] THEN At(bias, pos[4]) ELSE 0

C5_Witness ==
    /\ CallValid
    /\ use_bias[3]
    /\ call.out.ok
    /\ out_features = 2
    /\ ExpectedShape[3] = 2
    /\ At(bias, 0) # At(bias, 1)
    /\ At(bias, 0) # 0

\* C6: in every state reached by construction, reset_parameters and forward, the
\* weight has shape (in1_features + int(bias[0]), in2_features + int(bias[1]),
\* out_features), and the bias vector is absent without bias[2] and of length
\* out_features with it.
C6_ParameterShapes ==
    /\ weight.ok
    /\ weight.shape = <<in1_features + ToInt(use_bias[1]),
                        in2_features + ToInt(use_bias[2]), out_features>>
    /\ Len(weight.data) = Numel(weight.shape)
    /\ use_bias[3] => (bias.ok /\ bias.shape = <<out_features>>
                          /\ Len(bias.data) = out_features)
    /\ ~use_bias[3] => bias = None

C6_Witness ==
    /\ bpc = "called"
    /\ call.out.ok
    /\ use_bias = <<TRUE, FALSE, TRUE>>
    /\ weight.shape = <<3, 2, 2>>
    /\ bias.shape = <<2>>

C8_UniformRange ==
    LET n == in1_features + ToInt(use_bias[1])
        InRange(m) == m * m * n <= RandRes * RandRes * stdvDim
    IN /\ \A k \in 1..Len(weight.data) : InRange(weight.data[k])
       /\ bias.ok => \A k \in 1..Len(bias.data) : InRange(bias.data[k])

C8_Witness ==
    /\ bpc = "idle"
    /\ in1_features + ToInt(use_bias[1]) > in2_features + ToInt(use_bias[2])
    /\ out_features = 2
    /\ \E k \in 1..Len(weight.data) : weight.data[k] = -RandRes
    /\ bias.ok
    /\ \E k \in 1..Len(bias.data) : bias.data[k] * bias.data[k] = RandRes * RandRes


\* ------------------------------------------------- concurrent_apply: claims
\* how many times v occurs in the sequence q
Occurrences(q, v) == Cardinality({k \in 1..Len(q) : q[k] = v})

\* func applied to each input element, in input order
Mapped == [k \in 1..Len(inputs) |-> Func(inputs[k])]

\* C9: whatever the order in which the workers finish, func is applied to each
\* element at most once while the call runs and exactly once by its return; the
\* returned list has the length of the input and the same elements with the same
\* multiplicities as func over the input; the bar is initialised with the total,
\* updated once per collected result, and closed only when all are collected.
C9_EachAppliedOnceAllCollected ==
    /\ \A k \in 1..Len(inputs) : applied[k] <= 1
    /\ pbarCount = Len(ret_list)
    /\ ppc \in {"loop", "done"} => pbarTotal = Len(inputs)
    /\ pbarClosed => (ppc = "done" /\ Len(ret_list) = Len(inputs))
    /\ ppc = "done" =>
          /\ \A k \in 1..Len(inputs) : applied[k] = 1
          /\ Len(ret_list) = Len(inputs)
          /\ \A v \in {Mapped[k] : k \in 1..Len(Mapped)}
                    \cup {ret_list[k] : k \in 1..Len(ret_list)} :
                Occurrences(ret_list, v) = Occurrences(Mapped, v)
          /\ pbarCount = pbarTotal
          /\ pbarClosed

C9_Witness ==
    /\ ppc = "done"
    /\ pbarClosed
    /\ Len(inputs) = 3
    /\ process_num = 2
    /\ ret_list # Mapped
    /\ Occurrences(Mapped, Func(inputs[1])) = 2

\* ------------------------------------------------------------ Embed: claims
\* the argument is of a form the constructor accepts: a dict giving both sizes
\* or a weight (and sizes that agree with the weight, when it gives both), an
\* array, or a 2-tuple
Accepted(arg) ==
    IF arg.kind = "dict"
    THEN /\ (arg.vocab # NoSize /\ arg.embed # NoSize) \/ arg.shape # NoShape
         /\ (arg.vocab # NoSize /\ arg.embed # NoSize /\ arg.shape # NoShape)
               => arg.shape = <<arg.vocab, arg.embed>>
    ELSE TRUE

\* the argument's own (vocab_size, embed_size)
OwnSizes(arg) ==
    IF arg.kind = "ndarray" THEN arg.shape
    ELSE IF arg.kind = "tuple" THEN <<arg.vocab, arg.embed>>
    ELSE IF arg.vocab # NoSize /\ arg.embed # NoSize THEN <<arg.vocab, arg.embed>>
    ELSE arg.shape

\* C10: for arguments that are each a dict giving sizes and/or weights, an array
\* or a 2-tuple, construction raises nothing and ends with one Embedding per
\* argument, in order, of that argument's own sizes, and size their summed
\* embedding_dim.
C10_AcceptedFormsConstruct ==
    (epc # "none" /\ \A k \in 1..Len(eargs) : Accepted(eargs[k])) =>
        /\ epc \in {"loop", "done"}
        /\ epc = "done" =>
              /\ embeds = [k \in 1..Len(eargs) |-> OwnSizes(eargs[k])]
              /\ esize = SumTo([k \in 0..(Len(eargs) - 1) |-> OwnSizes(eargs[k + 1])[2]],
                               Len(eargs))

====
